---- MODULE Spec2Model ----
(***************************************************************************)
(* Model of countdown-numbers-solver: the validity evaluator               *)
(* (try_apply_legal / try_apply_sensible), the recursive search            *)
(* (calc_postfix_sequences_all / _first), the expression tree              *)
(* (ExpBTree::try_from, commutative_eq, rendering) and main's printing.    *)
(*                                                                         *)
(* A u32 is modelled by its little-endian base-256 digits without leading  *)
(* zero digits (0 is <<>>, 258 is <<2, 1>>, u32::MAX is                     *)
(* <<255, 255, 255, 255>>), so that values up to and beyond 2^32 are exact. *)
(***************************************************************************)
EXTENDS Integers, Sequences, FiniteSets

VARIABLES
    numbers_in,      \* CliArgs.numbers
    target,          \* CliArgs.target
    dumb,            \* CliArgs.dumb
    overflow_checks, \* build profile: TRUE panics on u32 overflow, FALSE wraps
    pc,              \* position of the modelled run
    numbers,         \* remaining numbers of the current recursion node
    stack,           \* evaluation stack of the current recursion node
    history,         \* postfix sequence of the current recursion node
    solutions,       \* set returned by calc_postfix_sequences_all
    solution,        \* option returned by calc_postfix_sequences_first
    deduped,         \* trees that pass dedup_by, in iteration order
    printed,         \* the expressions main prints, in printing order
    ta, tb           \* expression trees compared by commutative_eq

vars == <<numbers_in, target, dumb, overflow_checks, pc, numbers, stack,
          history, solutions, solution, deduped, printed, ta, tb>>

(***************************************************************************)
(* Bounds of the model.                                                    *)
(***************************************************************************)
MaxLen == 3      \* longest list of input numbers
MaxNum == 2      \* small input numbers are 0..MaxNum
MaxTarget == 4   \* small targets are 0..MaxTarget
MaxShown == 3    \* largest solution set whose printing is explored
MaxLeaves == 4   \* most leaves of a compared expression tree
MaxLeaf == 2     \* leaf values of compared trees are 1..MaxLeaf

(***************************************************************************)
(* Exact natural-number arithmetic on base-256 digit sequences.            *)
(***************************************************************************)
Base == 256
U32Digits == 4

RECURSIVE Norm(_)
Norm(d) == IF d = <<>> THEN <<>>
           ELSE IF d[Len(d)] = 0 THEN Norm(SubSeq(d, 1, Len(d) - 1))
           ELSE d

RECURSIVE NatOf(_)
NatOf(i) == IF i = 0 THEN <<>> ELSE <<i % Base>> \o NatOf(i \div Base)

RECURSIVE AddCarry(_, _, _)
AddCarry(a, b, c) ==
    IF a = <<>> /\ b = <<>> THEN (IF c = 0 THEN <<>> ELSE <<c>>)
    ELSE LET x == IF a = <<>> THEN 0 ELSE Head(a)
             y == IF b = <<>> THEN 0 ELSE Head(b)
             s == x + y + c
         IN  <<s % Base>> \o AddCarry(IF a = <<>> THEN <<>> ELSE Tail(a),
                                      IF b = <<>> THEN <<>> ELSE Tail(b),
                                      s \div Base)

NatAdd(a, b) == AddCarry(a, b, 0)

RECURSIVE LessFrom(_, _, _)
LessFrom(a, b, i) ==
    IF i = 0 THEN FALSE
    ELSE IF a[i] # b[i] THEN a[i] < b[i]
    ELSE LessFrom(a, b, i - 1)

NatLess(a, b) == \/ Len(a) < Len(b)
                 \/ Len(a) = Len(b) /\ LessFrom(a, b, Len(a))

NatLeq(a, b) == ~NatLess(b, a)

RECURSIVE SubBorrow(_, _, _)
SubBorrow(a, b, c) ==
    IF a = <<>> THEN <<>>
    ELSE LET y == IF b = <<>> THEN 0 ELSE Head(b)
             s == Head(a) - y - c
         IN  <<(s + Base) % Base>> \o
             SubBorrow(Tail(a), IF b = <<>> THEN <<>> ELSE Tail(b),
                       IF s < 0 THEN 1 ELSE 0)

\* a - b for a >= b
NatSub(a, b) == Norm(SubBorrow(a, b, 0))

RECURSIVE MulDigitCarry(_, _, _)
MulDigitCarry(a, d, c) ==
    IF a = <<>> THEN (IF c = 0 THEN <<>> ELSE <<c>>)
    ELSE LET p == Head(a) * d + c
         IN  <<p % Base>> \o MulDigitCarry(Tail(a), d, p \div Base)

MulDigit(a, d) == IF d = 0 THEN <<>> ELSE MulDigitCarry(a, d, 0)

ShiftDigit(a) == IF a = <<>> THEN <<>> ELSE <<0>> \o a

RECURSIVE NatMul(_, _)
NatMul(a, b) ==
    IF a = <<>> \/ b = <<>> THEN <<>>
    ELSE NatAdd(MulDigit(a, Head(b)), ShiftDigit(NatMul(a, Tail(b))))

Pow2(k) == CASE k = 0 -> 1 [] k = 1 -> 2 [] k = 2 -> 4 [] k = 3 -> 8
             [] k = 4 -> 16 [] k = 5 -> 32 [] k = 6 -> 64 [] OTHER -> 128

\* the largest digit q with q*b <= r, found bit by bit, and r - q*b
RECURSIVE QuotDigit(_, _, _, _)
QuotDigit(r, b, k, q) ==
    IF k < 0 THEN [q |-> q, r |-> r]
    ELSE LET t == MulDigit(b, Pow2(k))
         IN  IF NatLeq(t, r) THEN QuotDigit(NatSub(r, t), b, k - 1, q + Pow2(k))
             ELSE QuotDigit(r, b, k - 1, q)

\* long division of a by b # 0, from the most significant digit of a; each
\* digit's quotient and remainder qd is computed once, then carried down
RECURSIVE LongDiv(_, _, _, _, _)
LongDiv(a, b, i, r, q) ==
    IF i = 0 THEN [q |-> Norm(q), r |-> r]
    ELSE CHOOSE out \in { LongDiv(a, b, i - 1, qd.r, <<qd.q>> \o q) :
                              qd \in {QuotDigit(Norm(<<a[i]>> \o r), b, 7, 0)} } : TRUE

NatDiv(a, b) == LongDiv(a, b, Len(a), <<>>, <<>>).q
NatMod(a, b) == LongDiv(a, b, Len(a), <<>>, <<>>).r

Zero == <<>>
One == <<1>>
U32Max == <<255, 255, 255, 255>>

\* does a value fit a u32, and the value a wrapping u32 operation keeps
FitsU32(x) == Len(x) <= U32Digits
WrapU32(x) == IF FitsU32(x) THEN x ELSE Norm(SubSeq(x, 1, U32Digits))

(***************************************************************************)
(* Tokens (util.rs): Token::Num(n) is [num |-> n], Token::Op(op) is        *)
(* [op |-> op].                                                            *)
(***************************************************************************)
\* an enumeration with Sub and Div exchanged
OpDivFirst == <<"Add", "Div", "Mul", "Sub">>

Op == <<"Add", "Sub", "Mul", "Div">>     \* Op::iter(): declaration order
OpSet == {Op[i] : i \in 1..Len(Op)}

Num(n) == [num |-> n]
OpToken(op) == [op |-> op]
IsNum(token) == "num" \in DOMAIN token

(***************************************************************************)
(* Validity evaluator (compute.rs).  The outcome of applying a token is    *)
(* Some(stack), None, or a panic of the overflow-checked build.            *)
(***************************************************************************)
Some(s) == [kind |-> "Some", val |-> s]
None == [kind |-> "None", val |-> <<>>]
Panic == [kind |-> "Panic", val |-> <<>>]

\* stack.push(v) for the exact value v of a u32 `+` or `*`
PushArith(rest, v, checks) ==
    IF FitsU32(v) THEN Some(Append(rest, v))
    ELSE IF checks THEN Panic
    ELSE Some(Append(rest, WrapU32(v)))

try_apply_legal(stk, token, checks) ==
    IF IsNum(token) THEN Some(Append(stk, token.num))
    ELSE IF Len(stk) < 2 THEN None
    ELSE LET operand1 == stk[Len(stk)]
             operand0 == stk[Len(stk) - 1]
             rest == SubSeq(stk, 1, Len(stk) - 2)
         IN  CASE token.op = "Add" ->
                    PushArith(rest, NatAdd(operand0, operand1), checks)
               [] token.op = "Sub" ->
                    IF NatLeq(operand0, operand1) THEN None
                    ELSE Some(Append(rest, NatSub(operand0, operand1)))
               [] token.op = "Mul" ->
                    PushArith(rest, NatMul(operand0, operand1), checks)
               [] token.op = "Div" ->
                    IF operand1 = Zero THEN None
                    ELSE IF NatMod(operand0, operand1) # Zero THEN None
                    ELSE Some(Append(rest, NatDiv(operand0, operand1)))

try_apply_sensible(stk, token, checks) ==
    IF IsNum(token)
    THEN IF token.num = Zero THEN None ELSE Some(Append(stk, token.num))
    ELSE IF Len(stk) < 2 THEN None
    ELSE LET operand1 == stk[Len(stk)]
             operand0 == stk[Len(stk) - 1]
             rest == SubSeq(stk, 1, Len(stk) - 2)
         IN  CASE token.op = "Add" ->
                    IF NatLess(operand0, operand1) THEN None
                    ELSE PushArith(rest, NatAdd(operand0, operand1), checks)
               [] token.op = "Sub" ->
                    IF NatLess(operand0, operand1) THEN None
                    ELSE Some(Append(rest, NatSub(operand0, operand1)))
               [] token.op = "Mul" ->
                    IF operand0 = One \/ operand1 = One \/ NatLess(operand0, operand1)
                    THEN None
                    ELSE PushArith(rest, NatMul(operand0, operand1), checks)
               [] token.op = "Div" ->
                    IF NatLeq(operand1, One) THEN None
                    ELSE IF NatMod(operand0, operand1) # Zero THEN None
                    ELSE Some(Append(rest, NatDiv(operand0, operand1)))

\* the `if dumb { try_apply_legal(..) } else { try_apply_sensible(..) }` of the search
try_apply(d, stk, token, checks) ==
    IF d THEN try_apply_legal(stk, token, checks)
    ELSE try_apply_sensible(stk, token, checks)

(***************************************************************************)
(* Search engine (compute.rs).                                             *)
(***************************************************************************)
\* the number is read but left in the list
swap_remove_keep(v, idx) == v

\* a removal that always drops the last element, whatever idx is
swap_remove_pop(v, idx) == SubSeq(v, 1, Len(v) - 1)

\* Vec::swap_remove(idx): the last element takes the place of the removed one
swap_remove(v, idx) ==
    [i \in 1..(Len(v) - 1) |-> IF i = idx THEN v[Len(v)] ELSE v[i]]

\* a target test that forgets the stack length
target_reached_any_len(stk, tgt) == stk # <<>> /\ stk[Len(stk)] = tgt

\* `stack.len() == 1 && stack[0] == target`
target_reached(stk, tgt) == Len(stk) = 1 /\ stk[1] = tgt

\* The value of a find-all call: the set it returns, or a panic.
Returned(set) == [panic |-> FALSE, set |-> set]
Panicked == [panic |-> TRUE, set |-> {}]

\* union of two find-all values; a panic anywhere aborts the whole call
Merge(acc, out) ==
    IF acc.panic \/ out.panic THEN Panicked ELSE Returned(acc.set \cup out.set)

RECURSIVE calc_postfix_sequences_all_recurse(_, _, _, _, _, _)
RECURSIVE number_step_outputs(_, _, _, _, _, _, _)
RECURSIVE operation_step_outputs(_, _, _, _, _, _, _)

\* the outputs of the number steps idx, idx+1, ... of one node
number_step_outputs(nums, tgt, d, stk, hist, checks, idx) ==
    IF idx > Len(nums) THEN Returned({})
    ELSE LET r == try_apply(d, stk, Num(nums[idx]), checks)
             out == IF r.kind = "Some"
                    THEN calc_postfix_sequences_all_recurse(
                             swap_remove(nums, idx), tgt, d, r.val,
                             Append(hist, Num(nums[idx])), checks)
                    ELSE IF r.kind = "Panic" THEN Panicked ELSE Returned({})
         IN  Merge(out, number_step_outputs(nums, tgt, d, stk, hist, checks, idx + 1))

\* the outputs of the operation steps Op[i], Op[i+1], ... of one node
operation_step_outputs(nums, tgt, d, stk, hist, checks, i) ==
    IF i > Len(Op) THEN Returned({})
    ELSE LET r == try_apply(d, stk, OpToken(Op[i]), checks)
             out == IF r.kind = "Some"
                    THEN calc_postfix_sequences_all_recurse(
                             nums, tgt, d, r.val, Append(hist, OpToken(Op[i])), checks)
                    ELSE IF r.kind = "Panic" THEN Panicked ELSE Returned({})
         IN  Merge(out, operation_step_outputs(nums, tgt, d, stk, hist, checks, i + 1))

calc_postfix_sequences_all_recurse(nums, tgt, d, stk, hist, checks) ==
    LET self_outputs == IF target_reached(stk, tgt) THEN {hist} ELSE {}
    IN  Merge(Returned(self_outputs),
              Merge(number_step_outputs(nums, tgt, d, stk, hist, checks, 1),
                    operation_step_outputs(nums, tgt, d, stk, hist, checks, 1)))

calc_postfix_sequences_all(nums, tgt, d, checks) ==
    calc_postfix_sequences_all_recurse(nums, tgt, d, <<>>, <<>>, checks)

\* find-first: Some(sequence), None, or a panic; iterators are lazy, so a later
\* candidate is applied only after the earlier ones returned None.
RECURSIVE calc_postfix_sequences_first_recurse(_, _, _, _, _, _)
RECURSIVE first_number_step(_, _, _, _, _, _, _)
RECURSIVE first_operation_step(_, _, _, _, _, _, _)

first_number_step(nums, tgt, d, stk, hist, checks, idx) ==
    IF idx > Len(nums) THEN None
    ELSE LET r == try_apply(d, stk, Num(nums[idx]), checks)
             sub == IF r.kind = "Some"
                    THEN calc_postfix_sequences_first_recurse(
                             swap_remove(nums, idx), tgt, d, r.val,
                             Append(hist, Num(nums[idx])), checks)
                    ELSE r
         IN  IF sub.kind # "None" THEN sub
             ELSE first_number_step(nums, tgt, d, stk, hist, checks, idx + 1)

first_operation_step(nums, tgt, d, stk, hist, checks, i) ==
    IF i > Len(Op) THEN None
    ELSE LET r == try_apply(d, stk, OpToken(Op[i]), checks)
             sub == IF r.kind = "Some"
                    THEN calc_postfix_sequences_first_recurse(
                             nums, tgt, d, r.val, Append(hist, OpToken(Op[i])), checks)
                    ELSE r
         IN  IF sub.kind # "None" THEN sub
             ELSE first_operation_step(nums, tgt, d, stk, hist, checks, i + 1)

calc_postfix_sequences_first_recurse(nums, tgt, d, stk, hist, checks) ==
    IF target_reached(stk, tgt) THEN Some(hist)
    ELSE LET number_step_solution ==
                 first_number_step(nums, tgt, d, stk, hist, checks, 1)
         IN  IF number_step_solution.kind # "None" THEN number_step_solution
             ELSE first_operation_step(nums, tgt, d, stk, hist, checks, 1)

calc_postfix_sequences_first(nums, tgt, d, checks) ==
    calc_postfix_sequences_first_recurse(nums, tgt, d, <<>>, <<>>, checks)

(***************************************************************************)
(* Expression trees (util.rs): ExpBTree::Num(n) is [num |-> n],            *)
(* ExpBTree::Exp {lhs, rhs, op} is [lhs |-> .., rhs |-> .., op |-> ..].    *)
(* A String is the sequence of its bytes.                                  *)
(***************************************************************************)
IsLeaf(t) == "num" \in DOMAIN t
Exp(l, r, o) == [lhs |-> l, rhs |-> r, op |-> o]

Ok(t) == [kind |-> "Ok", val |-> t]
Err(repr) == [kind |-> "Err", val |-> repr]

\* u32::to_string
RECURSIVE NatToString(_)
NatToString(n) ==
    LET d == NatMod(n, <<10>>)
        last == 48 + (IF d = <<>> THEN 0 ELSE d[1])
    IN  IF NatLess(n, <<10>>) THEN <<last>>
        ELSE Append(NatToString(NatDiv(n, <<10>>)), last)

\* Display for Op
OpToString(op) == CASE op = "Add" -> <<43>> [] op = "Sub" -> <<45>>
                    [] op = "Mul" -> <<42>> [] op = "Div" -> <<47>>

\* Display for Token
TokenToString(token) ==
    IF IsNum(token) THEN NatToString(token.num) ELSE OpToString(token.op)

\* util::to_postfix_string: the tokens joined by ","
RECURSIVE seq_to_postfix_string(_)
seq_to_postfix_string(seq) ==
    IF seq = <<>> THEN <<>>
    ELSE IF Len(seq) = 1 THEN TokenToString(seq[1])
    ELSE TokenToString(seq[1]) \o <<44>> \o seq_to_postfix_string(Tail(seq))

\* try_from_impl: the replay over a stack of trees; <<>> stands for None
RECURSIVE try_from_impl(_, _)
try_from_impl(seq, stk) ==
    IF seq = <<>>
    THEN IF Len(stk) = 1 THEN <<stk[1]>> ELSE <<>>
    ELSE LET token == Head(seq)
         IN  IF IsNum(token)
             THEN try_from_impl(Tail(seq), Append(stk, [num |-> token.num]))
             ELSE IF Len(stk) < 2 THEN <<>>
             ELSE try_from_impl(Tail(seq),
                      Append(SubSeq(stk, 1, Len(stk) - 2),
                             Exp(stk[Len(stk) - 1], stk[Len(stk)], token.op)))

try_from(seq) ==
    LET t == try_from_impl(seq, <<>>)
    IN  IF t = <<>> THEN Err(seq_to_postfix_string(seq)) ELSE Ok(t[1])

\* a comparison whose swapped case tests one pair of children only
RECURSIVE commutative_eq_one_pair(_, _)
commutative_eq_one_pair(self, other) ==
    IF IsLeaf(self) /\ IsLeaf(other) THEN self.num = other.num
    ELSE IF ~IsLeaf(self) /\ ~IsLeaf(other)
    THEN IF self.op # other.op THEN FALSE
         ELSE IF self.op \in {"Add", "Mul"}
         THEN \/ commutative_eq_one_pair(self.lhs, other.lhs)
                    /\ commutative_eq_one_pair(self.rhs, other.rhs)
              \/ commutative_eq_one_pair(self.lhs, other.rhs)
         ELSE commutative_eq_one_pair(self.lhs, other.lhs)
                  /\ commutative_eq_one_pair(self.rhs, other.rhs)
    ELSE FALSE

RECURSIVE commutative_eq(_, _)
commutative_eq(self, other) ==
    IF IsLeaf(self) /\ IsLeaf(other) THEN self.num = other.num
    ELSE IF ~IsLeaf(self) /\ ~IsLeaf(other)
    THEN IF self.op # other.op THEN FALSE
         ELSE IF self.op \in {"Add", "Mul"}
         THEN \/ commutative_eq(self.lhs, other.lhs) /\ commutative_eq(self.rhs, other.rhs)
              \/ commutative_eq(self.lhs, other.rhs) /\ commutative_eq(self.rhs, other.lhs)
         ELSE commutative_eq(self.lhs, other.lhs) /\ commutative_eq(self.rhs, other.rhs)
    ELSE FALSE

RECURSIVE to_postfix_string(_)
to_postfix_string(t) ==
    IF IsLeaf(t) THEN NatToString(t.num)
    ELSE to_postfix_string(t.lhs) \o <<44>> \o to_postfix_string(t.rhs)
         \o <<44>> \o OpToString(t.op)

\* Ord for Op: the precedence class
Precedence(op) == IF op \in {"Add", "Sub"} THEN 1 ELSE 2

Paren(str) == <<40>> \o str \o <<41>>

\* to_infix_string_impl: [repr, op], op = "None" for a number
RECURSIVE to_infix_string_impl(_)
to_infix_string_impl(t) ==
    IF IsLeaf(t) THEN [repr |-> NatToString(t.num), op |-> "None"]
    ELSE LET l == to_infix_string_impl(t.lhs)
             r == to_infix_string_impl(t.rhs)
             lhs_repr == IF l.op = "None" THEN l.repr
                         ELSE IF Precedence(l.op) < Precedence(t.op)
                         THEN Paren(l.repr) ELSE l.repr
             rhs_repr == IF r.op = "None" THEN r.repr
                         ELSE IF Precedence(r.op) <= Precedence(t.op)
                         THEN Paren(r.repr) ELSE r.repr
         IN  [repr |-> lhs_repr \o OpToString(t.op) \o rhs_repr, op |-> t.op]

to_infix_string(t) == to_infix_string_impl(t).repr

(***************************************************************************)
(* main (main.rs).                                                         *)
(***************************************************************************)
\* the orders in which a HashSet can be iterated
RECURSIVE IterationOrders(_)
IterationOrders(set) ==
    IF set = {} THEN {<<>>}
    ELSE UNION {{<<x>> \o o : o \in IterationOrders(set \ {x})} : x \in set}

\* Itertools::dedup_by: an item equal (by cmp) to the last kept one is dropped
RECURSIVE dedup_by(_, _)
dedup_by(trees, kept) ==
    IF trees = <<>> THEN kept
    ELSE IF kept # <<>> /\ commutative_eq(kept[Len(kept)], Head(trees))
    THEN dedup_by(Tail(trees), kept)
    ELSE dedup_by(Tail(trees), Append(kept, Head(trees)))

\* Ord for String: bytewise lexicographic
RECURSIVE StrLess(_, _)
StrLess(a, b) ==
    IF b = <<>> THEN FALSE
    ELSE IF a = <<>> THEN TRUE
    ELSE IF Head(a) # Head(b) THEN Head(a) < Head(b)
    ELSE StrLess(Tail(a), Tail(b))

\* Itertools::sorted (stable)
RECURSIVE Insert(_, _)
Insert(sortedSeq, x) ==
    IF sortedSeq = <<>> THEN <<x>>
    ELSE IF StrLess(x, Head(sortedSeq)) THEN <<x>> \o sortedSeq
    ELSE <<Head(sortedSeq)>> \o Insert(Tail(sortedSeq), x)

RECURSIVE sorted(_)
sorted(strs) ==
    IF strs = <<>> THEN <<>>
    ELSE Insert(sorted(SubSeq(strs, 1, Len(strs) - 1)), strs[Len(strs)])

render(tree, postfix) ==
    IF postfix THEN to_postfix_string(tree) ELSE to_infix_string(tree)

(***************************************************************************)
(* The inputs of the model.                                                *)
(***************************************************************************)
Pool == {NatOf(i) : i \in 0..MaxNum} \cup {U32Max}
NumberLists == UNION {[1..n -> Pool] : n \in 1..MaxLen}
Targets == {NatOf(i) : i \in 0..MaxTarget}

\* the worked examples of the specification
Examples ==
    { [numbers |-> <<NatOf(2), NatOf(3)>>, target |-> NatOf(5)],
      [numbers |-> <<NatOf(4), NatOf(2)>>, target |-> NatOf(2)],
      [numbers |-> <<NatOf(1), NatOf(1)>>, target |-> NatOf(2)],
      [numbers |-> <<NatOf(5)>>,           target |-> NatOf(5)],
      [numbers |-> <<NatOf(3), NatOf(3)>>, target |-> NatOf(9)] }

Inputs == {[numbers |-> l, target |-> t] : l \in NumberLists, t \in Targets}
              \cup Examples

NoTree == [num |-> Zero]

(***************************************************************************)
(* Spec: a run of main.                                                    *)
(***************************************************************************)
Init ==
    /\ \E in \in Inputs : numbers_in = in.numbers /\ target = in.target
    /\ dumb \in BOOLEAN
    /\ overflow_checks \in BOOLEAN
    /\ pc = "main"
    /\ numbers = <<>> /\ stack = <<>> /\ history = <<>>
    /\ solutions = {} /\ solution = None
    /\ deduped = <<>> /\ printed = <<>>
    /\ ta = NoTree /\ tb = NoTree

\* main.rs 50-51: find_all is set
FindAll ==
    /\ pc = "main"
    /\ LET r == calc_postfix_sequences_all(numbers_in, target, dumb, overflow_checks)
       IN  IF r.panic
           THEN pc' = "panic_overflow" /\ solutions' = {}
           ELSE pc' = "found_all" /\ solutions' = r.set
    /\ UNCHANGED <<numbers_in, target, dumb, overflow_checks, numbers, stack,
                   history, solution, deduped, printed, ta, tb>>

\* main.rs 52-70
PrintAll ==
    /\ pc = "found_all"
    /\ Cardinality(solutions) <= MaxShown
    /\ \E order \in IterationOrders(solutions), postfix \in BOOLEAN :
          LET built == [i \in 1..Len(order) |-> try_from(order[i])]
              trees == [i \in 1..Len(order) |-> built[i].val]
              kept == dedup_by(trees, <<>>)
          IN  IF \E i \in 1..Len(order) : built[i].kind = "Err"
              THEN pc' = "panic_unwrap" /\ UNCHANGED <<deduped, printed>>
              ELSE /\ pc' = "printed_all"
                   /\ deduped' = kept
                   /\ printed' = sorted([i \in 1..Len(kept) |-> render(kept[i], postfix)])
    /\ UNCHANGED <<numbers_in, target, dumb, overflow_checks, numbers, stack,
                   history, solutions, solution, ta, tb>>

\* main.rs 71-72: find_all is not set
FindFirst ==
    /\ pc = "main"
    /\ LET r == calc_postfix_sequences_first(numbers_in, target, dumb, overflow_checks)
       IN  IF r.kind = "Panic"
           THEN pc' = "panic_overflow" /\ solution' = None
           ELSE pc' = "found_first" /\ solution' = r
    /\ UNCHANGED <<numbers_in, target, dumb, overflow_checks, numbers, stack,
                   history, solutions, deduped, printed, ta, tb>>

\* main.rs 73-84
PrintFirst ==
    /\ pc = "found_first"
    /\ \E postfix \in BOOLEAN :
          IF solution.kind = "None"
          THEN pc' = "printed_first" /\ UNCHANGED <<deduped, printed>>
          ELSE LET tree == try_from(solution.val)
               IN  IF tree.kind = "Err"
                   THEN pc' = "panic_unwrap" /\ UNCHANGED <<deduped, printed>>
                   ELSE /\ pc' = "printed_first"
                        /\ deduped' = <<tree.val>>
                        /\ printed' = <<render(tree.val, postfix)>>
    /\ UNCHANGED <<numbers_in, target, dumb, overflow_checks, numbers, stack,
                   history, solutions, solution, ta, tb>>

Next == FindAll \/ PrintAll \/ FindFirst \/ PrintFirst

Spec == Init /\ [][Next]_vars

(***************************************************************************)
(* SearchSpec: the recursion of the search, one node at a time.  A state   *)
(* is a call of calc_postfix_sequences_all_recurse with its arguments      *)
(* (numbers, stack, history) and its self_outputs (solutions); a step      *)
(* enters one of the recursive calls the node makes.  The calls made by    *)
(* calc_postfix_sequences_first_recurse are among these.                   *)
(***************************************************************************)
self_outputs(stk, tgt, hist) == IF target_reached(stk, tgt) THEN {hist} ELSE {}

SearchInit ==
    /\ \E in \in Inputs : numbers_in = in.numbers /\ target = in.target
    /\ dumb \in BOOLEAN
    /\ overflow_checks \in BOOLEAN
    /\ pc = "recurse"
    /\ numbers = numbers_in /\ stack = <<>> /\ history = <<>>
    /\ solutions = self_outputs(stack, target, history) /\ solution = None
    /\ deduped = <<>> /\ printed = <<>>
    /\ ta = NoTree /\ tb = NoTree

\* compute.rs 141-160 (and 217-236): a number is applied and the call recurses
NumberStep ==
    /\ pc = "recurse"
    /\ \E idx \in 1..Len(numbers) :
          LET r == try_apply(dumb, stack, Num(numbers[idx]), overflow_checks)
          IN  /\ r.kind = "Some"
              /\ numbers' = swap_remove(numbers, idx)
              /\ stack' = r.val
              /\ history' = Append(history, Num(numbers[idx]))
              /\ solutions' = self_outputs(stack', target, history')
    /\ UNCHANGED <<numbers_in, target, dumb, overflow_checks, pc, solution,
                   deduped, printed, ta, tb>>

\* compute.rs 165-179 (and 244-258): an operation is applied and the call
\* recurses, or the overflow-checked arithmetic panics
OperationStep ==
    /\ pc = "recurse"
    /\ \E i \in 1..Len(Op) :
          LET r == try_apply(dumb, stack, OpToken(Op[i]), overflow_checks)
          IN  /\ r.kind # "None"
              /\ IF r.kind = "Panic"
                 THEN /\ pc' = "panic_overflow"
                      /\ UNCHANGED <<stack, history, solutions>>
                 ELSE /\ pc' = pc
                      /\ stack' = r.val
                      /\ history' = Append(history, OpToken(Op[i]))
                      /\ solutions' = self_outputs(stack', target, history')
    /\ UNCHANGED <<numbers_in, target, dumb, overflow_checks, numbers, solution,
                   deduped, printed, ta, tb>>

SearchNext == NumberStep \/ OperationStep

SearchSpec == SearchInit /\ [][SearchNext]_vars

\* the recursion runs on one thread and every call it can make is made:
\* a node that has a recursive call to enter enters one
SearchLive == SearchSpec /\ WF_vars(SearchNext)

(***************************************************************************)
(* TreeSpec: commutative_eq applied to expression trees.  A state holds a  *)
(* tree ta and, after a comparison that returned true, the tree tb it was  *)
(* found equal to.                                                         *)
(***************************************************************************)
RECURSIVE TreesWith(_)
TreesWith(k) ==
    IF k = 1 THEN {[num |-> NatOf(v)] : v \in 1..MaxLeaf}
    ELSE UNION {{Exp(l, r, o) : l \in TreesWith(j), r \in TreesWith(k - j), o \in OpSet}
                   : j \in 1..(k - 1)}

Trees == UNION {TreesWith(k) : k \in 1..MaxLeaves}

TreeInit ==
    /\ ta \in Trees /\ tb = NoTree
    /\ pc = "compare"
    /\ numbers_in = <<>> /\ target = Zero /\ dumb = FALSE /\ overflow_checks = FALSE
    /\ numbers = <<>> /\ stack = <<>> /\ history = <<>>
    /\ solutions = {} /\ solution = None
    /\ deduped = <<>> /\ printed = <<>>

\* a call ta.commutative_eq(&other) that returns true, as when dedup_by
\* drops `other` (main.rs 59)
FoundEqual ==
    /\ pc = "compare"
    /\ \E other \in Trees :
          /\ commutative_eq(ta, other)
          /\ tb' = other
          /\ pc' = "equal"
    /\ UNCHANGED <<numbers_in, target, dumb, overflow_checks, numbers, stack,
                   history, solutions, solution, deduped, printed, ta>>

TreeNext == FoundEqual

TreeSpec == TreeInit /\ [][TreeNext]_vars

(***************************************************************************)
(* Ordinary (unconstrained) integer arithmetic, for replaying a sequence:  *)
(* an integer is a sign and a magnitude of any size.                       *)
(***************************************************************************)
IntOf(neg, mag) == [neg |-> neg /\ mag # Zero, mag |-> mag]

IntAdd(x, y) ==
    IF x.neg = y.neg THEN IntOf(x.neg, NatAdd(x.mag, y.mag))
    ELSE IF NatLess(x.mag, y.mag) THEN IntOf(y.neg, NatSub(y.mag, x.mag))
    ELSE IntOf(x.neg, NatSub(x.mag, y.mag))

IntSub(x, y) == IntAdd(x, IntOf(~y.neg, y.mag))
IntMul(x, y) == IntOf(x.neg # y.neg, NatMul(x.mag, y.mag))
\* the quotient truncated towards zero, for y # 0
IntDiv(x, y) == IntOf(x.neg # y.neg, NatDiv(x.mag, y.mag))

\* strict postfix evaluation: [ok, stack]; ok is FALSE after an operator found
\* fewer than two values or a division by zero
RECURSIVE Replay(_, _)
Replay(seq, stk) ==
    IF seq = <<>> THEN [ok |-> TRUE, stack |-> stk]
    ELSE LET token == Head(seq)
         IN  IF IsNum(token)
             THEN Replay(Tail(seq), Append(stk, IntOf(FALSE, token.num)))
             ELSE IF Len(stk) < 2 THEN [ok |-> FALSE, stack |-> stk]
             ELSE LET b == stk[Len(stk)]
                      a == stk[Len(stk) - 1]
                      rest == SubSeq(stk, 1, Len(stk) - 2)
                  IN  CASE token.op = "Add" -> Replay(Tail(seq), Append(rest, IntAdd(a, b)))
                        [] token.op = "Sub" -> Replay(Tail(seq), Append(rest, IntSub(a, b)))
                        [] token.op = "Mul" -> Replay(Tail(seq), Append(rest, IntMul(a, b)))
                        [] token.op = "Div" ->
                             IF b.mag = Zero THEN [ok |-> FALSE, stack |-> stk]
                             ELSE Replay(Tail(seq), Append(rest, IntDiv(a, b)))

EvaluatesTo(seq, tgt) ==
    LET r == Replay(seq, <<>>)
    IN  r.ok /\ r.stack = <<IntOf(FALSE, tgt)>>

\* the sequences a finished search call has returned
ReturnedSequences ==
    IF pc = "found_all" THEN solutions
    ELSE IF pc = "found_first" /\ solution.kind = "Some" THEN {solution.val}
    ELSE {}

(***************************************************************************)
(* Multisets of numbers, as sequences compared by occurrence counts.       *)
(***************************************************************************)
Count(v, seq) == Cardinality({i \in DOMAIN seq : seq[i] = v})
SubBag(a, b) == \A i \in DOMAIN a : Count(a[i], a) <= Count(a[i], b)
SameBag(a, b) == SubBag(a, b) /\ SubBag(b, a)

\* the numbers of the Num tokens of a sequence, in order
RECURSIVE NumsOf(_)
NumsOf(seq) ==
    IF seq = <<>> THEN <<>>
    ELSE IF IsNum(Head(seq)) THEN <<Head(seq).num>> \o NumsOf(Tail(seq))
    ELSE NumsOf(Tail(seq))

(***************************************************************************)
(* C1: every sequence returned by find-all or find-first, replayed as a    *)
(* strict postfix evaluation with unconstrained integer arithmetic, never  *)
(* underflows and ends with exactly one value, the target.                 *)
(* Violated: in the build without overflow checks a wrapped sum or product *)
(* equal to the target is accepted (numbers 4294967295,1 and target 0      *)
(* return 4294967295,1,+ whose value is 4294967296).                       *)
(***************************************************************************)
C1_ReplayYieldsTarget == \A seq \in ReturnedSequences : EvaluatesTo(seq, target)

(***************************************************************************)
(* C2 as stated: in every returned sequence the multiset of Num tokens     *)
(* equals the multiset of input numbers (each input number used exactly    *)
(* once).  Violated: a node whose stack is the target alone is a solution  *)
(* even while numbers remain (numbers 0,0 and target 0 return the          *)
(* one-token sequence 0).                                                  *)
(***************************************************************************)
C2_UsesEveryNumberOnce ==
    \A seq \in ReturnedSequences : SameBag(NumsOf(seq), numbers_in)

(***************************************************************************)
(* C2 amended: in every returned sequence the multiset of Num tokens is    *)
(* contained in the multiset of input numbers: each input number is used   *)
(* at most once and no other number appears.                               *)
(***************************************************************************)
C2_UsesEachNumberAtMostOnce ==
    \A seq \in ReturnedSequences : SubBag(NumsOf(seq), numbers_in)

\* a returned set holds a sequence with an operator that leaves an input unused
C2_Witness ==
    /\ pc = "found_all"
    /\ \E seq \in solutions :
          /\ Len(NumsOf(seq)) >= 2
          /\ Len(NumsOf(seq)) < Len(numbers_in)

(***************************************************************************)
(* C3: whenever find-first returns a sequence, find-all for the same       *)
(* numbers, target and policy returns a set that contains that sequence.   *)
(* Violated in the overflow-checked build: find-first returns before the   *)
(* search reaches an overflowing sum, find-all panics on it (see C9).      *)
(***************************************************************************)
C3_FirstIsMemberOfAll ==
    pc = "found_first" /\ solution.kind = "Some" =>
        LET all == calc_postfix_sequences_all(numbers_in, target, dumb, overflow_checks)
        IN  ~all.panic /\ solution.val \in all.set

(***************************************************************************)
(* C4: in find-all mode without the dumb flag, whatever the iteration      *)
(* order of the result set, no two printed expressions have                *)
(* commutative-equal trees.  Violated: dedup_by only drops an item equal   *)
(* to the one before it, and the HashSet may iterate another solution in   *)
(* between (numbers 1,2,2 and target 2: 2/2+1, 2, 1+2/2).                  *)
(***************************************************************************)
C4_PrintedClassesAreDistinct ==
    pc = "printed_all" /\ ~dumb =>
        \A i, j \in DOMAIN deduped :
            i # j => ~commutative_eq(deduped[i], deduped[j])

(***************************************************************************)
(* C5: the sensible policy rejects every (stack, token) pair the legal     *)
(* policy rejects; Sub on (a, b), b on top, is rejected under both         *)
(* policies unless a > b, so a subtraction never pushes 0.                 *)
(* Violated: try_apply_sensible tests operand0 < operand1, so Sub on       *)
(* (a, a) is accepted and pushes 0.                                        *)
(***************************************************************************)
Tokens == {Num(n) : n \in Pool} \cup {OpToken(o) : o \in OpSet}

C5_SensibleRejectsWhatLegalRejects ==
    /\ \A token \in Tokens :
          try_apply_legal(stack, token, overflow_checks).kind = "None"
              => try_apply_sensible(stack, token, overflow_checks).kind = "None"
    /\ \A d \in BOOLEAN :
          LET r == try_apply(d, stack, OpToken("Sub"), overflow_checks)
          IN  r.kind = "Some" =>
                 /\ NatLess(stack[Len(stack)], stack[Len(stack) - 1])
                 /\ r.val[Len(r.val)] # Zero

(***************************************************************************)
(* C6: commutative_eq is an equivalence relation on expression trees: it   *)
(* is reflexive, symmetric and transitive, also on trees that mix          *)
(* commutative (Add, Mul) and non-commutative (Sub, Div) nodes.            *)
(***************************************************************************)
C6_CommutativeEqIsEquivalence ==
    /\ commutative_eq(ta, ta)
    /\ pc = "equal" =>
          /\ commutative_eq(tb, ta)
          /\ \A c \in Trees : commutative_eq(tb, c) => commutative_eq(ta, c)

\* two different trees found equal, a commutative node over a non-commutative one
C6_Witness ==
    /\ pc = "equal" /\ ta # tb
    /\ ~IsLeaf(ta) /\ ta.op \in {"Add", "Mul"}
    /\ ~IsLeaf(ta.lhs) /\ ta.lhs.op \in {"Sub", "Div"}
    /\ \E c \in Trees : c # ta /\ c # tb /\ commutative_eq(tb, c)

(***************************************************************************)
(* C7: every sequence returned by find-all or find-first is accepted by    *)
(* ExpBTree::try_from, and the unwrap calls of main never panic.           *)
(***************************************************************************)
C7_ReturnedSequencesBuildTrees ==
    /\ \A seq \in ReturnedSequences : try_from(seq).kind = "Ok"
    /\ pc # "panic_unwrap"

\* main has built the trees of a returned set, one of them with an operator
C7_Witness ==
    /\ pc = "printed_all"
    /\ Cardinality(solutions) >= 2
    /\ \E i \in DOMAIN deduped : ~IsLeaf(deduped[i])

(***************************************************************************)
(* C8 as stated: for numbers 4,2, target 2 and the sensible policy,        *)
(* find-first returns 4,2,/.  Violated: Sub precedes Div in Op::iter(), so *)
(* 4,2,- is found first.                                                   *)
(***************************************************************************)
C8_Case ==
    /\ pc = "found_first"
    /\ numbers_in = <<NatOf(4), NatOf(2)>> /\ target = NatOf(2) /\ ~dumb

C8_FirstIsDivision ==
    C8_Case => solution = Some(<<Num(NatOf(4)), Num(NatOf(2)), OpToken("Div")>>)

(***************************************************************************)
(* C8 amended: find-first is deterministic and follows the fixed           *)
(* depth-first traversal (operators in the order Add, Sub, Mul, Div), so   *)
(* for numbers 4,2, target 2 and the sensible policy it returns 4,2,-.     *)
(***************************************************************************)
C8_FirstIsSubtraction ==
    C8_Case => solution = Some(<<Num(NatOf(4)), Num(NatOf(2)), OpToken("Sub")>>)

C8_Witness == C8_Case /\ solution.kind = "Some"

(***************************************************************************)
(* C9: applying a token to a stack reachable during the search never       *)
(* overflows: the sum and the product computed by Add and Mul stay within  *)
(* the u32 range (no panic, no wrapped value pushed).                      *)
(* Violated: neither policy bounds the operands (numbers 4294967295,1:     *)
(* Add on the stack (4294967295, 1)).                                      *)
(***************************************************************************)
C9_ArithmeticStaysInU32 ==
    /\ pc # "panic_overflow"
    /\ \A o \in {"Add", "Mul"} :
          try_apply(dumb, stack, OpToken(o), TRUE).kind # "Panic"

(***************************************************************************)
(* C10 as stated: at every node of the recursion the remaining-numbers     *)
(* list is an order-preserving subsequence of the input.  Violated:        *)
(* swap_remove moves the last remaining number into the vacated position   *)
(* (input 0,1,2: removing position 0 leaves 2,1).                          *)
(***************************************************************************)
RECURSIVE IsSubsequence(_, _)
IsSubsequence(a, b) ==
    IF a = <<>> THEN TRUE
    ELSE IF b = <<>> THEN FALSE
    ELSE IF Head(a) = Head(b) THEN IsSubsequence(Tail(a), Tail(b))
    ELSE IsSubsequence(a, Tail(b))

C10_RemainingKeepsInputOrder == IsSubsequence(numbers, numbers_in)

(***************************************************************************)
(* C10 amended: at every node of the recursion the remaining-numbers list  *)
(* holds exactly the input numbers not yet consumed on the path, as a      *)
(* multiset; their original relative order is not kept.                    *)
(***************************************************************************)
C10_RemainingIsUnconsumedInput ==
    SameBag(numbers \o NumsOf(history), numbers_in)

\* a node whose remaining numbers are no longer in input order
C10_Witness ==
    /\ pc = "recurse"
    /\ Len(history) >= 1 /\ Len(numbers) >= 2
    /\ ~IsSubsequence(numbers, numbers_in)

(***************************************************************************)
(* C11: the search terminates.  Every recursive step either removes one    *)
(* remaining number or shrinks the stack by one, so the measure            *)
(* 2*|remaining| + |stack| strictly decreases along every search path, no  *)
(* path (history) grows beyond 2N-1 tokens for an input of N >= 1 numbers, *)
(* and every path reaches a node that makes no further recursive call      *)
(* (or the overflow-checked arithmetic aborts the run).                    *)
(***************************************************************************)
Measure == 2 * Len(numbers) + Len(stack)

\* the node makes no recursive call: the run was aborted, or no remaining
\* number and no operation is accepted on the current stack
NoRecursiveCall ==
    \/ pc # "recurse"
    \/ /\ \A idx \in 1..Len(numbers) :
             try_apply(dumb, stack, Num(numbers[idx]), overflow_checks).kind = "None"
       /\ \A i \in 1..Len(Op) :
             try_apply(dumb, stack, OpToken(Op[i]), overflow_checks).kind = "None"

C11_SearchTerminates ==
    /\ [][pc' = "recurse" =>
             /\ \/ Len(numbers') = Len(numbers) - 1
                \/ Len(stack') = Len(stack) - 1
             /\ Measure' < Measure
             /\ Len(history') = Len(history) + 1]_vars
    /\ [](Len(numbers_in) >= 1 => Len(history) <= 2 * Len(numbers_in) - 1)
    /\ <>NoRecursiveCall

\* a path of the greatest length: all MaxLen numbers consumed and combined
\* into one value by MaxLen - 1 operations
C11_Witness ==
    /\ pc = "recurse"
    /\ Len(numbers_in) = MaxLen
    /\ numbers = <<>> /\ Len(stack) = 1
    /\ Len(history) = 2 * Len(numbers_in) - 1
    /\ \E i \in 1..Len(history) : ~IsNum(history[i])
====
